---------------------------- MODULE Spec2Model ----------------------------
(***************************************************************************)
(* A model of the CheXpert data-preparation scripts:                       *)
(*   src/data/scripts/download.py    CheXpertManager (raw directory,       *)
(*                                   archive acquisition, extraction)      *)
(*   src/data/scripts/preprocess.py  CheXpertPreprocessor (patient split)  *)
(* SpecDL is the downloader's state machine over the raw directory,        *)
(* SpecPP the preprocessor's over the source CSV and the output directory. *)
(***************************************************************************)
EXTENDS Integers, Sequences, FiniteSets, TLC

VARIABLES
    fs,        \* raw_dir: entry name -> "absent" | "file" | "dir"
    sub,       \* children of the dataset-named directories under raw_dir
    content,   \* what each zip file under raw_dir holds
    remote,    \* the archive the external provider serves
    useKaggle, \* CheXpertManager.use_kaggle
    op,        \* the last public call made on the manager
    ret,       \* its return value: "True" | "False" | "None"
    trace,     \* the calls it made, in order
    exitCode,  \* 1 when the call ended in sys.exit(1), else 0
    pre,       \* the raw directory as it was when the call started
    moved,     \* entries shutil.move moved during the call
    removed,   \* directories rmdir removed during the call
    ioError,   \* whether an I/O error interrupted the flattening of the call
    inputCsv,  \* <input>/train.csv: its rows, or Absent
    nestedCsv, \* <input>/CheXpert-v1.0-small/train.csv: its rows, or Absent
    rngKey,    \* which generator numpy's RandomState is (fixed for a behaviour)
    csvPath,   \* CheXpertPreprocessor.csv_path: "unset" | "input" | "nested"
    ppc,       \* where preprocess.py's main() is
    ppExit,    \* the exit code of the preprocess step, 0 while it runs
    out,       \* the output directory: file name -> rows, or Absent
    prevOut,   \* the output directory as the previous process() left it
    runs       \* how many times process() has run

dlvars == <<fs, sub, content, remote, useKaggle, op, ret, trace, exitCode,
            pre, moved, removed, ioError>>

ppvars == <<inputCsv, nestedCsv, rngKey, csvPath, ppc, ppExit, out, prevOut, runs>>

vars == <<dlvars, ppvars>>

-----------------------------------------------------------------------------
(* Names under raw_dir *)

ZipName == "chexpert.zip"
ManualName == "archive.zip"
OtherZip == "ashery-chexpert.zip"
NestedName == "CheXpert-v1.0-small"
SecondName == "chexpert_extra"
ReadmeName == "README.md"

DirsToCheck == <<"train", "valid">>
FilesToCheck == <<"train.csv", "valid.csv">>

Range(s) == {s[i] : i \in DOMAIN s}

Required == Range(DirsToCheck) \cup Range(FilesToCheck)

ZipNames == {ZipName, ManualName, OtherZip}
DatasetDirs == {NestedName, SecondName}
Names == ZipNames \cup Required \cup DatasetDirs \cup {ReadmeName}

\* The kind an entry has inside the archive (and keeps when moved).
MemberKind(n) == IF n \in Range(DirsToCheck) \cup DatasetDirs THEN "dir" ELSE "file"

\* The characters of an entry name, for the substring test of the flattener.
Chars(n) ==
    CASE n = ZipName -> <<"c","h","e","x","p","e","r","t",".","z","i","p">>
      [] n = ManualName -> <<"a","r","c","h","i","v","e",".","z","i","p">>
      [] n = OtherZip -> <<"a","s","h","e","r","y","-","c","h","e","x","p","e","r","t",".","z","i","p">>
      [] n = NestedName -> <<"C","h","e","X","p","e","r","t","-","v","1",".","0","-","s","m","a","l","l">>
      [] n = SecondName -> <<"c","h","e","x","p","e","r","t","_","e","x","t","r","a">>
      [] n = ReadmeName -> <<"R","E","A","D","M","E",".","m","d">>
      [] n = "train" -> <<"t","r","a","i","n">>
      [] n = "valid" -> <<"v","a","l","i","d">>
      [] n = "train.csv" -> <<"t","r","a","i","n",".","c","s","v">>
      [] n = "valid.csv" -> <<"v","a","l","i","d",".","c","s","v">>

UpperCase == <<"A","C","D","E","M","R","X">>
LowerCase == <<"a","c","d","e","m","r","x">>

\* str.lower() on one character
LowerChar(c) ==
    IF \E i \in DOMAIN UpperCase : UpperCase[i] = c
    THEN LowerCase[CHOOSE i \in DOMAIN UpperCase : UpperCase[i] = c]
    ELSE c

\* str.lower()
Lower(s) == [i \in DOMAIN s |-> LowerChar(s[i])]

\* `pat in s` on strings
Contains(pat, s) ==
    \E k \in 0..(Len(s) - Len(pat)) :
        \A i \in 1..Len(pat) : s[k + i] = pat[i]

ChexpertPat == <<"c","h","e","x","p","e","r","t">>

\* The substring test without lower(): "chexpert" in x.name
NameMatchesCaseSensitive(n) == Contains(ChexpertPat, Chars(n))

\* "chexpert" in x.name.lower()
NameMatches(n) == Contains(ChexpertPat, Lower(Chars(n)))


-----------------------------------------------------------------------------
(* The raw directory as a value: [fs, sub, content] *)

ArchiveKinds == {"corrupt", "flat", "nested", "nestedExtra", "nestedPartial", "twoDirs"}

\* The top-level members an archive unpacks to, each with its children.
Layout(kind) ==
    CASE kind = "flat" -> {[name |-> n, children |-> {}] : n \in Required}
      [] kind = "nested" -> {[name |-> NestedName, children |-> Required]}
      [] kind = "nestedExtra" ->
            {[name |-> NestedName, children |-> Required \cup {ReadmeName}]}
      [] kind = "nestedPartial" ->
            {[name |-> NestedName, children |-> {"train", "train.csv"}]}
      [] kind = "twoDirs" ->
            {[name |-> NestedName, children |-> Required],
             [name |-> SecondName, children |-> {ReadmeName}]}
      [] OTHER -> {}

\* Path.exists()
Exists(s, n) == s.fs[n] # "absent"

\* Path.is_dir()
IsDir(s, n) == s.fs[n] = "dir"

Py(b) == IF b THEN "True" ELSE "False"

\* Path.rename(): the entry, with what it holds, goes from `from` to `to`.
Rename(s, from, to) ==
    [s EXCEPT !.fs = [@ EXCEPT ![to] = s.fs[from], ![from] = "absent"],
              !.content = [@ EXCEPT ![to] = s.content[from], ![from] = "none"]]

\* The provider writes (or overwrites) a zip file under raw_dir.
WriteZip(s, n, kind) ==
    [s EXCEPT !.fs = [@ EXCEPT ![n] = "file"],
              !.content = [@ EXCEPT ![n] = kind]]

\* The normalizer without its `not standard_path.exists()` test.
CheckAndFixAlwaysRename(s) ==
    IF Exists(s, ManualName)
    THEN [s |-> Rename(s, ManualName, ZipName), ret |-> TRUE,
          trace |-> <<"_check_and_fix_filenames", "rename">>]
    ELSE [s |-> s, ret |-> Exists(s, ZipName),
          trace |-> <<"_check_and_fix_filenames">>]

\* CheXpertManager._check_and_fix_filenames
CheckAndFixFilenames(s) ==
    IF ~Exists(s, ZipName) /\ Exists(s, ManualName)
    THEN [s |-> Rename(s, ManualName, ZipName), ret |-> TRUE,
          trace |-> <<"_check_and_fix_filenames", "rename">>]
    ELSE [s |-> s, ret |-> Exists(s, ZipName),
          trace |-> <<"_check_and_fix_filenames">>]

\* The validator without its loop over dirs_to_check.
MissingFilesOnly(s) ==
    LET Absent(n) == ~Exists(s, n)
    IN  SelectSeq(FilesToCheck, Absent)

\* CheXpertManager._validate_structure: the list of missing entries
Missing(s) ==
    LET Absent(n) == ~Exists(s, n)
    IN  SelectSeq(DirsToCheck, Absent) \o SelectSeq(FilesToCheck, Absent)

\* CheXpertManager._validate_structure
ValidateStructure(s) == Missing(s) = <<>>

\* What subprocess.run(['kaggle', ...], check=True) can do.
ProviderOutcomes ==
    {"missing", "nonzero", "wrote_zip", "wrote_manual", "wrote_other", "wrote_nothing"}

\* The raw directory after the provider ran with the given outcome.
Provider(s, outcome, served) ==
    CASE outcome = "wrote_zip" -> WriteZip(s, ZipName, served)
      [] outcome = "wrote_manual" -> WriteZip(s, ManualName, served)
      [] outcome = "wrote_other" -> WriteZip(s, OtherZip, served)
      [] OTHER -> s

\* download_kaggle without its early return on an existing archive.
DownloadKaggleNoSkip(s, use, outcome, served) ==
    IF ~use
    THEN [s |-> s, ret |-> FALSE, trace |-> <<"download_kaggle">>]
    ELSE IF outcome = "nonzero"
    THEN [s |-> s, ret |-> FALSE,
          trace |-> <<"download_kaggle", "kaggle", "CalledProcessError">>]
    ELSE IF outcome = "missing"
    THEN [s |-> s, ret |-> FALSE,
          trace |-> <<"download_kaggle", "kaggle", "FileNotFoundError">>]
    ELSE LET fixed == CheckAndFixFilenames(Provider(s, outcome, served))
         IN  [s |-> fixed.s, ret |-> TRUE,
              trace |-> <<"download_kaggle", "kaggle">> \o fixed.trace]

\* download_kaggle whose CalledProcessError handler falls through to the
\* `return True` of the try block.
DownloadKaggleSwallow(s, use, outcome, served) ==
    IF Exists(s, ZipName)
    THEN [s |-> s, ret |-> TRUE, trace |-> <<"download_kaggle">>]
    ELSE IF ~use
    THEN [s |-> s, ret |-> FALSE, trace |-> <<"download_kaggle">>]
    ELSE IF outcome = "nonzero"
    THEN [s |-> s, ret |-> TRUE,
          trace |-> <<"download_kaggle", "kaggle", "CalledProcessError">>]
    ELSE IF outcome = "missing"
    THEN [s |-> s, ret |-> FALSE,
          trace |-> <<"download_kaggle", "kaggle", "FileNotFoundError">>]
    ELSE LET fixed == CheckAndFixFilenames(Provider(s, outcome, served))
         IN  [s |-> fixed.s, ret |-> TRUE,
              trace |-> <<"download_kaggle", "kaggle">> \o fixed.trace]

\* CheXpertManager.download_kaggle
DownloadKaggle(s, use, outcome, served) ==
    IF Exists(s, ZipName)
    THEN [s |-> s, ret |-> TRUE, trace |-> <<"download_kaggle">>]
    ELSE IF ~use
    THEN [s |-> s, ret |-> FALSE, trace |-> <<"download_kaggle">>]
    ELSE IF outcome = "nonzero"
    THEN [s |-> s, ret |-> FALSE,
          trace |-> <<"download_kaggle", "kaggle", "CalledProcessError">>]
    ELSE IF outcome = "missing"
    THEN [s |-> s, ret |-> FALSE,
          trace |-> <<"download_kaggle", "kaggle", "FileNotFoundError">>]
    ELSE LET fixed == CheckAndFixFilenames(Provider(s, outcome, served))
         IN  [s |-> fixed.s, ret |-> TRUE,
              trace |-> <<"download_kaggle", "kaggle">> \o fixed.trace]

\* zipfile extraction of every member into raw_dir: top-level members are
\* created (or kept), the children of a dataset directory are merged.
Unpack(s, kind) ==
    LET lay == Layout(kind)
        tops == {m.name : m \in lay}
        ChildrenOf(n) == UNION {m.children : m \in {x \in lay : x.name = n}}
    IN  [s EXCEPT !.fs = [n \in Names |-> IF n \in tops THEN MemberKind(n) ELSE s.fs[n]],
                  !.sub = [d \in DatasetDirs |->
                              IF d \in tops THEN s.sub[d] \cup ChildrenOf(d) ELSE s.sub[d]]]

\* extracted_items: [x for x in raw_dir.iterdir() if x.is_dir() and "chexpert" in x.name.lower()]
ExtractedItems(s) == {n \in Names : IsDir(s, n) /\ NameMatches(n)}

\* `if extracted_items:`
ShouldFlatten(s) == ExtractedItems(s) # {}

\* extracted_items[0]: iterdir() yields the entries in arbitrary order.
NestedChoices(s) == ExtractedItems(s)

\* shutil.move of the children M of nested directory nd into raw_dir
MoveUp(s, nd, M) ==
    [s EXCEPT !.fs = [n \in Names |-> IF n \in M THEN MemberKind(n) ELSE s.fs[n]],
              !.sub = [@ EXCEPT ![nd] = @ \ M]]

\* nested_dir.rmdir()
Rmdir(s, nd) == [s EXCEPT !.fs = [@ EXCEPT ![nd] = "absent"]]

\* The children shutil.move refuses to move: the destination already exists.
Collisions(s, nd) == {c \in s.sub[nd] : Exists(s, c)}

\* The flatten loop over nested_dir.iterdir() and the rmdir after it. The
\* children come in arbitrary order; the loop stops at the first child whose
\* destination exists, or at an I/O error.
FlattenOutcomes(s, nd) ==
    LET C == s.sub[nd]
        K == Collisions(s, nd)
    IN  (IF K = {}
         THEN {[s |-> Rmdir(MoveUp(s, nd, C), nd), ok |-> TRUE,
                moved |-> C, removed |-> {nd}, io |-> FALSE],
               [s |-> MoveUp(s, nd, C), ok |-> FALSE,
                moved |-> C, removed |-> {}, io |-> TRUE]}
         ELSE {[s |-> MoveUp(s, nd, M), ok |-> FALSE,
                moved |-> M, removed |-> {}, io |-> FALSE] : M \in SUBSET (C \ K)})
        \cup
        {[s |-> MoveUp(s, nd, M), ok |-> FALSE,
          moved |-> M, removed |-> {}, io |-> TRUE] : M \in (SUBSET (C \ K)) \ {C}}

NoMove == [moved |-> {}, removed |-> {}, io |-> FALSE]

\* extract_and_organize without its early return on a valid layout.
ExtractAndOrganizeNoSkip(s) ==
    IF ~Exists(s, ZipName)
    THEN {[s |-> s, ret |-> FALSE,
           trace |-> <<"extract_and_organize">>] @@ NoMove}
    ELSE IF s.content[ZipName] = "corrupt"
    THEN {[s |-> s, ret |-> FALSE,
           trace |-> <<"extract_and_organize", "ZipFile">>] @@ NoMove}
    ELSE LET u == Unpack(s, s.content[ZipName])
             head == <<"extract_and_organize", "ZipFile", "extract">>
         IN  IF ~ShouldFlatten(u)
             THEN {[s |-> u, ret |-> ValidateStructure(u),
                    trace |-> head \o <<"_validate_structure">>] @@ NoMove}
             ELSE {[s |-> f.s,
                    ret |-> IF f.ok THEN ValidateStructure(f.s) ELSE FALSE,
                    trace |-> head \o <<"move">> \o
                              (IF f.ok THEN <<"_validate_structure">> ELSE <<>>),
                    moved |-> f.moved, removed |-> f.removed, io |-> f.io] :
                   f \in UNION {FlattenOutcomes(u, nd) : nd \in NestedChoices(u)}}

\* CheXpertManager.extract_and_organize: every result the call can have
ExtractAndOrganize(s) ==
    IF ValidateStructure(s)
    THEN {[s |-> s, ret |-> TRUE,
           trace |-> <<"extract_and_organize", "_validate_structure">>] @@ NoMove}
    ELSE IF ~Exists(s, ZipName)
    THEN {[s |-> s, ret |-> FALSE,
           trace |-> <<"extract_and_organize", "_validate_structure">>] @@ NoMove}
    ELSE IF s.content[ZipName] = "corrupt"
    THEN {[s |-> s, ret |-> FALSE,
           trace |-> <<"extract_and_organize", "_validate_structure", "ZipFile">>] @@ NoMove}
    ELSE LET u == Unpack(s, s.content[ZipName])
             head == <<"extract_and_organize", "_validate_structure", "ZipFile", "extract">>
         IN  IF ~ShouldFlatten(u)
             THEN {[s |-> u, ret |-> ValidateStructure(u),
                    trace |-> head \o <<"_validate_structure">>] @@ NoMove}
             ELSE {[s |-> f.s,
                    ret |-> IF f.ok THEN ValidateStructure(f.s) ELSE FALSE,
                    trace |-> head \o <<"move">> \o
                              (IF f.ok THEN <<"_validate_structure">> ELSE <<>>),
                    moved |-> f.moved, removed |-> f.removed, io |-> f.io] :
                   f \in UNION {FlattenOutcomes(u, nd) : nd \in NestedChoices(u)}}

\* CheXpertManager.run: every result the call can have
Run(s, use, served) ==
    LET fixed == CheckAndFixFilenames(s)
    IN  IF Exists(fixed.s, ZipName)
        THEN {[s |-> fixed.s, exit |-> 0, trace |-> <<"run">> \o fixed.trace] @@ NoMove}
        ELSE UNION {
               LET d == DownloadKaggle(fixed.s, use, outcome, served)
               IN  IF ~d.ret
                   THEN {[s |-> d.s, exit |-> 1,
                          trace |-> <<"run">> \o fixed.trace \o d.trace \o
                                    <<"return False", "sys.exit">>]
                         @@ NoMove}
                   ELSE {[s |-> e.s, exit |-> 0,
                          trace |-> <<"run">> \o fixed.trace \o d.trace \o
                                    <<"return True">> \o e.trace,
                          moved |-> e.moved, removed |-> e.removed, io |-> e.io] :
                         e \in ExtractAndOrganize(d.s)}
               : outcome \in ProviderOutcomes}

-----------------------------------------------------------------------------
(* The metadata splitter: preprocess.py *)

MaxPatients == 12
MaxExtra == 1
MaxRuns == 2
MaxKey == 11

NumTestPatients == 10
TestSizePercent == 20
Seed == 42

PatientNames ==
    <<"patient01", "patient02", "patient03", "patient04", "patient05",
      "patient06", "patient07", "patient08", "patient09", "patient10",
      "patient11", "patient12", "patient13", "patient14", "patient15",
      "patient16">>

SmallPrefix == "CheXpert-v1.0-small"
FullPrefix == "CheXpert-v1.0"

Min(a, b) == IF a < b THEN a ELSE b

\* A file: present with its rows, or absent.
Absent == [exists |-> FALSE, rows |-> <<>>]
File(rows) == [exists |-> TRUE, rows |-> rows]

SplitFiles == {"test.csv", "train.csv", "val.csv"}

\* The Path column of source row i, an image of patient p: its '/'-separated
\* segments. The rows of one CSV carry either dataset prefix, or none.
PathOf(i, p) ==
    (CASE i % 3 = 1 -> <<SmallPrefix>>
       [] i % 3 = 2 -> <<FullPrefix>>
       [] OTHER -> <<>>)
    \o <<"train", PatientNames[p], "study1", ToString(i)>>

LabelCycle == <<"NaN", "1.0", "0.0", "-1.0">>

\* The source CSV whose row i is an image of patient visits[i].
MakeCsv(visits) ==
    [i \in DOMAIN visits |->
        [Path |-> PathOf(i, visits[i]), label |-> LabelCycle[(i % Len(LabelCycle)) + 1]]]

\* n patients in first-appearance order (by name, or reversed), then e more
\* rows of patient d.
Visits(n, rev, d, e) ==
    [i \in 1..n |-> IF rev THEN n + 1 - i ELSE i] \o [i \in 1..e |-> d]

SourceCSVs ==
    {MakeCsv(<<>>)} \cup
    {MakeCsv(Visits(n, rev, d, e)) :
        n \in 1..MaxPatients, rev \in BOOLEAN, d \in 1..MaxPatients, e \in 0..MaxExtra}

DecoyCsv == MakeCsv(<<MaxPatients + 1>>)

\* df['Path'].str.replace(r'^CheXpert-v1\.0(-small)?/', '', regex=True)
StripPrefix(path) ==
    IF Len(path) >= 2 /\ path[1] \in {FullPrefix, SmallPrefix}
    THEN Tail(path)
    ELSE path

\* lambda x: x.split('/')[1]
PatientId(path) == path[2]

\* df after the Path fix and with the patient_id column
WithPatientId(rows) ==
    [i \in DOMAIN rows |->
        LET path == StripPrefix(rows[i].Path)
        IN  [Path |-> path, label |-> rows[i].label, patient_id |-> PatientId(path)]]

\* numpy.unique in place of Series.unique: the distinct values, sorted.
UniqueSorted(s) ==
    LET S == Range(s)
        Pos(v) == CHOOSE i \in DOMAIN PatientNames : PatientNames[i] = v
    IN  [k \in 1..Cardinality(S) |->
            CHOOSE v \in S : Cardinality({w \in S : Pos(w) < Pos(v)}) = k - 1]

\* Series.unique(): the distinct values in order of first appearance
RECURSIVE Unique(_)
Unique(s) ==
    IF s = <<>>
    THEN <<>>
    ELSE LET u == Unique(SubSeq(s, 1, Len(s) - 1))
         IN  IF s[Len(s)] \in Range(u) THEN u ELSE Append(u, s[Len(s)])

\* unique_patients[:10]
TestPatientIds(unique) == SubSeq(unique, 1, Min(NumTestPatients, Len(unique)))

\* df[df['patient_id'].isin(ids)]
IsIn(df, ids) ==
    LET Keep(r) == r.patient_id \in ids
    IN  SelectSeq(df, Keep)

\* The orders list(set(...)) can have: a set's iteration order is arbitrary.
ListsOf(S) ==
    {l \in [1..Cardinality(S) -> S] : \A i, j \in DOMAIN l : l[i] = l[j] => i = j}

\* RandomState(seed).permutation(n), 0-based: a fixed function of seed and n.
\* Which function is left open: key selects one of a family of generators.
Permutation(n, seed, key) ==
    [i \in 1..n |->
        IF key % 2 = 0 THEN (seed + key + i) % n ELSE (seed + key + n - i) % n]

\* sklearn's train_test_split(arr, test_size=0.20, random_state=seed):
\* n_test = ceil(test_size * n), n_train = n - n_test, ValueError when the
\* train set would be empty; the first n_test of the permutation are the test
\* part, the next n_train the train part.
TrainTestSplit(arr, seed, key) ==
    LET n == Len(arr)
        nTest == (TestSizePercent * n + 99) \div 100
        nTrain == n - nTest
        perm == Permutation(n, seed, key)
    IN  IF n = 0 \/ nTrain = 0
        THEN [ok |-> FALSE, train |-> <<>>, val |-> <<>>]
        ELSE [ok |-> TRUE,
              train |-> [i \in 1..nTrain |-> arr[perm[nTest + i] + 1]],
              val |-> [i \in 1..nTest |-> arr[perm[i] + 1]]]

\* train_test_split on the patients left after the test patients.
SplitInputRemaining(unique, remaining) == remaining

\* The array process() hands to train_test_split.
SplitInput(unique, remaining) == unique

\* df.fillna(0), one row
FillNa(r) == [r EXCEPT !.label = IF @ = "NaN" THEN "0" ELSE @]

\* CheXpertPreprocessor._save_split: the file written
SaveSplit(df) == File([i \in DOMAIN df |-> FillNa(df[i])])

\* The orders remaining_patients can have for the source rows.
RemainingLists(rows) ==
    LET unique == Unique([i \in DOMAIN rows |-> WithPatientId(rows)[i].patient_id])
    IN  ListsOf(Range(unique) \ Range(TestPatientIds(unique)))

\* CheXpertPreprocessor.process: the output directory it leaves, and whether
\* it raised (train_test_split's ValueError, after test.csv was written).
Process(rows, key, remaining, old) ==
    LET df == WithPatientId(rows)
        unique == Unique([i \in DOMAIN df |-> df[i].patient_id])
        testIds == TestPatientIds(unique)
        dfTest == IsIn(df, Range(testIds))
        split == TrainTestSplit(SplitInput(unique, remaining), Seed, key)
    IN  IF ~split.ok
        THEN [raised |-> TRUE,
              out |-> [old EXCEPT !["test.csv"] = SaveSplit(dfTest)]]
        ELSE [raised |-> FALSE,
              out |-> [f \in SplitFiles |->
                        CASE f = "test.csv" -> SaveSplit(dfTest)
                          [] f = "train.csv" -> SaveSplit(IsIn(df, Range(split.train)))
                          [] f = "val.csv" -> SaveSplit(IsIn(df, Range(split.val)))]]

\* The constructor without its second existence test.
ConstructNoExit(atInput, atNested) ==
    [csvPath |-> IF atInput.exists THEN "input" ELSE "nested", exit |-> 0]

\* CheXpertPreprocessor.__init__: csv_path, and whether it called sys.exit(1)
Construct(atInput, atNested) ==
    LET first == IF atInput.exists THEN "input" ELSE "nested"
        found == IF first = "input" THEN atInput.exists ELSE atNested.exists
    IN  [csvPath |-> first, exit |-> IF found THEN 0 ELSE 1]

-----------------------------------------------------------------------------
(* The downloader's state machine *)

Now == [fs |-> fs, sub |-> sub, content |-> content]

\* The preprocess step before it is started, with no source CSV in place.
PPIdle ==
    /\ inputCsv = Absent
    /\ nestedCsv = Absent
    /\ rngKey = 0
    /\ csvPath = "unset"
    /\ ppc = "start"
    /\ ppExit = 0
    /\ out = [f \in SplitFiles |-> Absent]
    /\ prevOut = [f \in SplitFiles |-> Absent]
    /\ runs = 0

\* An empty raw directory on which no call was made.
DLIdle ==
    /\ fs = [n \in Names |-> "absent"]
    /\ sub = [d \in DatasetDirs |-> {}]
    /\ content = [z \in ZipNames |-> "none"]
    /\ remote = "flat"
    /\ useKaggle = TRUE
    /\ op = "__init__"
    /\ ret = "None"
    /\ trace = <<>>
    /\ exitCode = 0
    /\ pre = Now
    /\ moved = {}
    /\ removed = {}
    /\ ioError = FALSE

\* The raw directories a call can find: any of the two archive names present,
\* any part of the required layout already in place, and a dataset directory
\* left by an earlier extraction with the rest of the layout (or all of it).
InitDirs ==
    {[fs |-> [n \in Names |->
                CASE n \in zips \cup top -> MemberKind(n)
                  [] n = NestedName /\ left # "absent" -> "dir"
                  [] OTHER -> "absent"],
      sub |-> [d \in DatasetDirs |->
                CASE d = NestedName /\ left = "rest" -> Required \ top
                  [] d = NestedName /\ left = "all" -> Required
                  [] OTHER -> {}],
      content |-> [z \in ZipNames |-> IF z \in zips THEN kind ELSE "none"]] :
     zips \in SUBSET {ZipName, ManualName}, top \in SUBSET Required,
     left \in {"absent", "rest", "all"}, kind \in ArchiveKinds}

DLInit ==
    /\ \E d \in InitDirs :
         /\ fs = d.fs
         /\ sub = d.sub
         /\ content = d.content
         /\ remote \in {d.content[z] : z \in {x \in ZipNames : d.content[x] # "none"}}
                       \cup (IF \A z \in ZipNames : d.content[z] = "none"
                             THEN ArchiveKinds ELSE {})
    /\ useKaggle \in BOOLEAN
    /\ op = "__init__"
    /\ ret = "None"
    /\ trace = <<>>
    /\ exitCode = 0
    /\ pre = Now
    /\ moved = {}
    /\ removed = {}
    /\ ioError = FALSE
    /\ PPIdle

Becomes(s) ==
    /\ fs' = s.fs
    /\ sub' = s.sub
    /\ content' = s.content
    /\ pre' = Now
    /\ UNCHANGED <<remote, useKaggle>>
    /\ UNCHANGED ppvars

CallCheckAndFixFilenames ==
    LET r == CheckAndFixFilenames(Now)
    IN  /\ Becomes(r.s)
        /\ op' = "_check_and_fix_filenames"
        /\ ret' = Py(r.ret)
        /\ trace' = r.trace
        /\ exitCode' = 0
        /\ moved' = {} /\ removed' = {} /\ ioError' = FALSE

CallValidateStructure ==
    /\ Becomes(Now)
    /\ op' = "_validate_structure"
    /\ ret' = Py(ValidateStructure(Now))
    /\ trace' = <<"_validate_structure">>
    /\ exitCode' = 0
    /\ moved' = {} /\ removed' = {} /\ ioError' = FALSE

CallDownloadKaggle ==
    \E outcome \in ProviderOutcomes :
        LET r == DownloadKaggle(Now, useKaggle, outcome, remote)
        IN  /\ Becomes(r.s)
            /\ op' = "download_kaggle"
            /\ ret' = Py(r.ret)
            /\ trace' = r.trace
            /\ exitCode' = 0
            /\ moved' = {} /\ removed' = {} /\ ioError' = FALSE

CallExtractAndOrganize ==
    \E r \in ExtractAndOrganize(Now) :
        /\ Becomes(r.s)
        /\ op' = "extract_and_organize"
        /\ ret' = Py(r.ret)
        /\ trace' = r.trace
        /\ exitCode' = 0
        /\ moved' = r.moved /\ removed' = r.removed /\ ioError' = r.io

CallRun ==
    \E r \in Run(Now, useKaggle, remote) :
        /\ Becomes(r.s)
        /\ op' = "run"
        /\ ret' = "None"
        /\ trace' = r.trace
        /\ exitCode' = r.exit
        /\ moved' = r.moved /\ removed' = r.removed /\ ioError' = r.io

DLNext ==
    \/ CallCheckAndFixFilenames
    \/ CallValidateStructure
    \/ CallDownloadKaggle
    \/ CallExtractAndOrganize
    \/ CallRun

SpecDL == DLInit /\ [][DLNext]_vars

-----------------------------------------------------------------------------
(* The preprocess step's state machine *)

\* The source CSV process() reads.
SourceFile == IF csvPath = "input" THEN inputCsv ELSE nestedCsv

PPInit ==
    /\ \E csv \in SourceCSVs, loc \in {"none", "input", "nested", "both"} :
         /\ inputCsv = IF loc \in {"input", "both"} THEN File(csv) ELSE Absent
         /\ nestedCsv = CASE loc = "nested" -> File(csv)
                          [] loc = "both" -> File(DecoyCsv)
                          [] OTHER -> Absent
    /\ rngKey \in 0..MaxKey
    /\ csvPath = "unset"
    /\ ppc = "start"
    /\ ppExit = 0
    /\ out = [f \in SplitFiles |-> Absent]
    /\ prevOut = [f \in SplitFiles |-> Absent]
    /\ runs = 0
    /\ DLIdle

\* main(): CheXpertPreprocessor(input_dir, output_dir)
CallConstruct ==
    /\ ppc = "start"
    /\ LET c == Construct(inputCsv, nestedCsv)
       IN  /\ csvPath' = c.csvPath
           /\ ppExit' = c.exit
           /\ ppc' = IF c.exit = 0 THEN "constructed" ELSE "exited"
    /\ UNCHANGED <<inputCsv, nestedCsv, rngKey, out, prevOut, runs>>
    /\ UNCHANGED dlvars

\* main(): processor.process()
CallProcess ==
    /\ ppc = "constructed"
    /\ runs < MaxRuns
    /\ \E remaining \in RemainingLists(SourceFile.rows) :
         LET r == Process(SourceFile.rows, rngKey, remaining, out)
         IN  /\ out' = r.out
             /\ ppc' = IF r.raised THEN "raised" ELSE "processed"
             /\ ppExit' = IF r.raised THEN 1 ELSE 0
    /\ prevOut' = out
    /\ runs' = runs + 1
    /\ UNCHANGED <<inputCsv, nestedCsv, rngKey, csvPath>>
    /\ UNCHANGED dlvars

\* The preprocess step is started again on the same directories.
Rerun ==
    /\ ppc \in {"processed", "raised", "exited"}
    /\ ppc' = "start"
    /\ csvPath' = "unset"
    /\ ppExit' = 0
    /\ UNCHANGED <<inputCsv, nestedCsv, rngKey, out, prevOut, runs>>
    /\ UNCHANGED dlvars

PPNext ==
    \/ CallConstruct
    \/ CallProcess
    \/ Rerun

SpecPP == PPInit /\ [][PPNext]_vars

-----------------------------------------------------------------------------
(* Properties of the metadata splitter (checked under SpecPP) *)

\* The patient a row belongs to, read off the image path from its end:
\* .../<patient>/<study>/<view>
TruePatient(row) == row.Path[Len(row.Path) - 2]

\* The view segment, which no two source rows share.
RowKey(row) == row.Path[Len(row.Path)]

Src == SourceFile.rows

AllPatients == {TruePatient(Src[i]) : i \in DOMAIN Src}

\* The source rows that are the first of their patient.
FirstRows ==
    {i \in DOMAIN Src : \A j \in 1..(i - 1) : TruePatient(Src[j]) # TruePatient(Src[i])}

\* The first NumTestPatients distinct patients in first-appearance order.
FirstPatients ==
    LET firsts == FirstRows
    IN  {TruePatient(Src[i]) :
            i \in {k \in firsts :
                      Cardinality({j \in firsts : j < k}) < NumTestPatients}}

PatientsIn(f) == {TruePatient(out[f].rows[i]) : i \in DOMAIN out[f].rows}

KeysOf(rows) == [i \in DOMAIN rows |-> RowKey(rows[i])]

ProcessRan == ppc \in {"processed", "raised"}

\* C1: after process(), every distinct patient ID is in exactly one of
\* test.csv, train.csv, val.csv; train.csv and val.csv hold no test patient.
C1_EveryPatientInExactlyOneSplit ==
    ppc = "processed" =>
        /\ \A p \in AllPatients :
             Cardinality({f \in SplitFiles : p \in PatientsIn(f)}) = 1
        /\ (PatientsIn("train.csv") \cup PatientsIn("val.csv"))
             \cap PatientsIn("test.csv") = {}

\* C2: test.csv holds exactly the source rows of the first 10 distinct
\* patients in first-appearance order, whatever the number of rows per
\* patient: each such row once, in source order, and no other row.
C2_TestIsFirstTenPatients ==
    ProcessRan =>
        /\ out["test.csv"].exists
        /\ LET first == FirstPatients
               InFirst(r) == TruePatient(r) \in first
           IN  KeysOf(out["test.csv"].rows) = KeysOf(SelectSeq(Src, InFirst))

\* C2 witness: more than 10 patients, one of the first 10 with two rows, and
\* the first row of the file belongs to a patient that is not the first by name.
C2_Witness ==
    /\ ppc = "processed"
    /\ Cardinality(AllPatients) > NumTestPatients
    /\ Len(out["test.csv"].rows) = NumTestPatients + 1
    /\ TruePatient(out["test.csv"].rows[1]) # PatientNames[1]

\* C8: two executions of process() on the same source CSV with the same seed
\* leave identical test.csv, train.csv and val.csv.
C8_SplitDeterministic ==
    (runs >= 2 /\ ProcessRan) => out = prevOut

\* C8 witness: a second execution that wrote non-empty train.csv and val.csv
\* from a CSV with patients beyond the test patients.
C8_Witness ==
    /\ runs >= 2
    /\ ppc = "processed"
    /\ Cardinality(AllPatients) >= NumTestPatients + 2
    /\ out["train.csv"].rows # <<>>
    /\ out["val.csv"].rows # <<>>

\* C9: with train.csv at neither location the constructor ends the process
\* with exit code 1 and no split file is ever written; with train.csv at
\* either location it succeeds, preferring <input>/train.csv.
C9_ConstructorFindsCsvOrExits ==
    /\ (~inputCsv.exists /\ ~nestedCsv.exists) =>
          /\ \A f \in SplitFiles : out[f] = Absent
          /\ ppc \in {"start", "exited"}
          /\ ppc = "exited" => ppExit = 1
    /\ (inputCsv.exists \/ nestedCsv.exists) =>
          /\ ppc # "exited"
          /\ ppc \in {"constructed", "processed", "raised"} =>
                csvPath = IF inputCsv.exists THEN "input" ELSE "nested"

\* C9 witness: the constructor has exited for want of a source CSV.
C9_Witness ==
    /\ ppc = "exited"
    /\ ppExit = 1
    /\ ~inputCsv.exists /\ ~nestedCsv.exists

-----------------------------------------------------------------------------
(* Properties of the downloader (checked under SpecDL) *)

Called(x) == x \in Range(trace)

Count(x) == Cardinality({i \in DOMAIN trace : trace[i] = x})

\* The position of the first x in the trace, 0 when it is absent.
FirstAt(x) ==
    IF Called(x) THEN CHOOSE i \in DOMAIN trace :
                        trace[i] = x /\ \A j \in 1..(i - 1) : trace[j] # x
    ELSE 0

\* C3: run() normalizes, acquires, extracts and validates in that order:
\* whenever a readable, complete archive is available (already present,
\* renamed from archive.zip, or downloaded) and the layout is not yet valid,
\* it goes on to call extract_and_organize(), and, no I/O error occurring,
\* the run ends with a raw directory that _validate_structure() accepts.
C3_RunExtractsAvailableArchive ==
    (/\ op = "run"
     /\ exitCode = 0
     /\ Exists(Now, ZipName)
     /\ content[ZipName] \in {"flat", "nested", "nestedExtra"}
     /\ ~ioError)
    =>  /\ FirstAt("_check_and_fix_filenames") = 2
        /\ Called("extract_and_organize") =>
              FirstAt("download_kaggle") < FirstAt("extract_and_organize")
        /\ ~ValidateStructure(pre) => Called("extract_and_organize")
        /\ ValidateStructure(Now)

\* C4: _check_and_fix_filenames is idempotent: a no-op returning true when
\* chexpert.zip exists; a rename of archive.zip to chexpert.zip returning true
\* when only archive.zip exists; a no-op returning false when neither exists;
\* any later call changes nothing; it returns true exactly when chexpert.zip
\* exists on return.
C4_NormalizerIdempotent ==
    op = "_check_and_fix_filenames" =>
        /\ ret = Py(Exists(Now, ZipName))
        /\ Exists(pre, ZipName) => (Now = pre /\ ret = "True")
        /\ (~Exists(pre, ZipName) /\ Exists(pre, ManualName)) =>
              /\ Exists(Now, ZipName) /\ ~Exists(Now, ManualName)
              /\ ret = "True"
              /\ content[ZipName] = pre.content[ManualName]
              /\ \A n \in Names \ {ZipName, ManualName} : fs[n] = pre.fs[n]
              /\ sub = pre.sub
        /\ (~Exists(pre, ZipName) /\ ~Exists(pre, ManualName)) =>
              (Now = pre /\ ret = "False")
        /\ LET again == CheckAndFixFilenames(Now)
           IN  again.s = Now /\ Py(again.ret) = ret

\* C4 witness: a call that renamed archive.zip.
C4_Witness ==
    /\ op = "_check_and_fix_filenames"
    /\ Called("rename")
    /\ ~Exists(pre, ZipName) /\ Exists(pre, ManualName)

\* C5: _validate_structure returns true iff train, valid, train.csv and
\* valid.csv all exist directly under raw_dir: without any one of them it is
\* false, extra entries never make it false, and it changes nothing.
C5_ValidatorIffAllRequired ==
    op = "_validate_structure" =>
        /\ (ret = "True") <=> (\A n \in Required : fs[n] # "absent")
        /\ Now = pre
        /\ \A n \in Required :
              ~ValidateStructure([Now EXCEPT !.fs = [@ EXCEPT ![n] = "absent"]])
        /\ \A n \in Names \ Required :
              ValidateStructure([Now EXCEPT !.fs = [@ EXCEPT ![n] = "file"]])
                 = (ret = "True")

\* C5 witness: the validator accepted a directory that holds extra entries.
C5_Witness ==
    /\ op = "_validate_structure"
    /\ ret = "True"
    /\ \E n \in Names \ Required : fs[n] # "absent"

\* C6: with chexpert.zip present download_kaggle returns true without
\* invoking the provider and leaves the raw directory unchanged, for either
\* value of use_kaggle.
C6_AcquirerSkipsExistingArchive ==
    (op = "download_kaggle" /\ Exists(pre, ZipName)) =>
        /\ ret = "True"
        /\ ~Called("kaggle")
        /\ Now = pre

\* C6 witness: download_kaggle called with the archive present and the
\* provider enabled.
C6_Witness ==
    /\ op = "download_kaggle"
    /\ Exists(pre, ZipName)
    /\ useKaggle

\* C7: in a run() where chexpert.zip is absent after normalization and the
\* provider is disabled, missing or exits nonzero, the provider is invoked at
\* most once (never when disabled), download_kaggle returns false,
\* extraction is not started and the process exits with code 1.
C7_AcquisitionFailureTerminal ==
    (/\ op = "run"
     /\ ~Exists(CheckAndFixFilenames(pre).s, ZipName)
     /\ \/ ~useKaggle
        \/ Called("CalledProcessError")
        \/ Called("FileNotFoundError"))
    =>  /\ Count("kaggle") <= 1
        /\ ~useKaggle => Count("kaggle") = 0
        /\ Called("return False")
        /\ ~Called("extract_and_organize")
        /\ exitCode = 1

\* C7 witness: a run() that ended with exit code 1 after the provider
\* exited nonzero.
C7_Witness ==
    /\ op = "run"
    /\ exitCode = 1
    /\ Called("CalledProcessError")

\* C10: after unpacking, the flattener moves the children of a dataset-named
\* directory up and removes it only when exactly one such directory exists
\* (all its children, when no destination exists already); with zero or more
\* than one, nothing is moved and nothing is removed. Stated for the calls
\* that no I/O error interrupts.
C10_FlattenOnlyWhenExactlyOne ==
    (op = "extract_and_organize" /\ Called("extract") /\ ~ioError) =>
        LET u == Unpack(pre, pre.content[ZipName])
            items == {n \in Names : u.fs[n] = "dir" /\ NameMatches(n)}
        IN  /\ Cardinality(items) # 1 => (moved = {} /\ removed = {})
            /\ (Cardinality(items) = 1 /\ \A d \in items : Collisions(u, d) = {})
               => (moved = UNION {u.sub[d] : d \in items} /\ removed = items)

\* C11: extract_and_organize never leaves a state the validator accepts
\* while reporting failure: whenever it returns false (corrupt archive, or an
\* error while moving children or removing the nested directory),
\* _validate_structure is false on the raw directory it leaves; its return
\* value equals the validator's verdict on that directory.
C11_ReturnEqualsValidatorVerdict ==
    op = "extract_and_organize" =>
        /\ ret = "False" => ~ValidateStructure(Now)
        /\ ret = Py(ValidateStructure(Now))

\* The archive of the call unpacked into the raw directory the call found.
Unpacked == Unpack(pre, pre.content[ZipName])

\* Unpacking left CheXpert-v1.0-small as the one dataset directory under
\* raw_dir, holding every required entry.
SingleNestedComplete ==
    /\ op = "extract_and_organize"
    /\ Called("extract")
    /\ {d \in DatasetDirs : Unpacked.fs[d] = "dir"} = {NestedName}
    /\ Required \subseteq Unpacked.sub[NestedName]

C13_ExtractSkipsValidLayout ==
    (op = "extract_and_organize" /\ ValidateStructure(pre)) =>
        /\ ret = "True"
        /\ ~Called("ZipFile")
        /\ ~Called("extract")
        /\ Now = pre
        /\ moved = {}
        /\ removed = {}

\* C13 witness: the call found a valid layout, a dataset directory left
\* beside it, and a readable archive it did not open.
C13_Witness ==
    /\ op = "extract_and_organize"
    /\ ValidateStructure(pre)
    /\ Exists(pre, ZipName)
    /\ pre.content[ZipName] = "nested"
    /\ pre.fs[NestedName] = "dir"

\* C13 witness for the other case is the same call with no archive at all.
C13_WitnessNoArchive ==
    /\ op = "extract_and_organize"
    /\ ValidateStructure(pre)
    /\ ~Exists(pre, ZipName)

-----------------------------------------------------------------------------
(* Further properties of the metadata splitter (checked under SpecPP) *)

KeySet(rows) == {RowKey(rows[i]) : i \in DOMAIN rows}

-----------------------------------------------------------------------------
(* Further properties of the downloader (checked under SpecDL) *)

\* C15: download_kaggle returns true only if chexpert.zip exists in raw_dir on
\* return, whatever a zero-exit provider wrote; hence run() never reaches
\* extract_and_organize with the archive absent.
C15_TrueOnlyWithArchive ==
    /\ (op = "download_kaggle" /\ ret = "True") => Exists(Now, ZipName)
    /\ (op = "run" /\ Called("extract_and_organize")) => Exists(Now, ZipName)
=============================================================================
